---- MODULE Spec2Model ----
(***************************************************************************)
(* Model of plugins/withFirebaseXcode16Fix.ts: the Expo config plugin that *)
(* patches ios/Podfile with a post_install hook of build-setting           *)
(* overrides.                                                              *)
(*                                                                         *)
(* Text is a sequence of lexical tokens.  A token is a maximal piece of    *)
(* Podfile text that none of the plugin's three text tests can split:      *)
(* a line break, a two-space indentation unit, the keyword "end", the      *)
(* hook-opening marker, or the remainder of a statement line.  Over such   *)
(* sequences String.includes and the two regular expressions of the        *)
(* plugin are computed position by position, as the JavaScript engine      *)
(* does.                                                                   *)
(***************************************************************************)
EXTENDS Integers, Sequences, FiniteSets

\* ------------------------------------------------------------------ tokens

NL == "\n"
SP2 == "  "
END == "end"
HOOK == "post_install do |installer|"
VERIFIER == "config.build_settings['CLANG_ENABLE_MODULE_VERIFIER'] = 'NO'"
EXPLICIT == "config.build_settings['CLANG_ENABLE_EXPLICIT_MODULES'] = 'NO'"
DEPLOY_GET == "deployment_target = config.build_settings['IPHONEOS_DEPLOYMENT_TARGET']"
DEPLOY_IF == "if deployment_target && deployment_target.to_f < 12.0"
DEPLOY_SET == "config.build_settings['IPHONEOS_DEPLOYMENT_TARGET'] = '12.0'"
SWIFT_MODE == "config.build_settings['SWIFT_COMPILATION_MODE'] = 'wholemodule'"
MODULE_DEBUGGING == "config.build_settings['CLANG_ENABLE_MODULE_DEBUGGING'] = 'NO'"
NON_MODULAR == "config.build_settings['CLANG_ALLOW_NON_MODULAR_INCLUDES_IN_FRAMEWORK_MODULES'] = 'YES'"
EACH_TARGET == "installer.pods_project.targets.each do |target|"
EACH_CONFIG == "target.build_configurations.each do |config|"
EACH_PROJECT_CONFIG == "installer.pods_project.build_configurations.each do |config|"
EACH_AGGREGATE == "installer.aggregate_targets.each do |aggregate_target|"
EACH_NATIVE == "aggregate_target.user_project.native_targets.each do |target|"
ONLY_ACTIVE_ARCH == "config.build_settings['ONLY_ACTIVE_ARCH'] = 'NO'"
EXCLUDED_ARCHS == "config.build_settings['EXCLUDED_ARCHS[sdk=iphonesimulator*]'] = 'arm64' if ENV['CI']"

\* Tokens of the Podfiles the plugin is run on, beside the ones above.
TARGET_DO == "target 'App' do"
POD == "pod 'Firebase'"
EACH_DO == "installer.pods_project.targets.each do |t|"

\* n indentation units followed by one token: one line without its line break.
RECURSIVE Indent(_)
Indent(n) == IF n = 0 THEN <<>> ELSE <<SP2>> \o Indent(n - 1)

Ln(n, tok) == Indent(n) \o <<tok>>

\* The same line with its line break.
Line(n, tok) == Ln(n, tok) \o <<NL>>

\* ----------------------------------------------------- the literal fragments

\* The template literal of lines 30-73: it opens with a line break and ends
\* with the hook's "  end", without a line break.
firebaseFixHook ==
    <<NL>>
    \o Line(1, HOOK)
    \o Line(2, "# Fix for Xcode 16.1 + React Native Firebase + New Architecture")
    \o Line(2, EACH_TARGET)
    \o Line(3, EACH_CONFIG)
    \o Line(4, "# Fix deployment target - Xcode 16.1 requires minimum iOS 12.0")
    \o Line(4, DEPLOY_GET)
    \o Line(4, DEPLOY_IF)
    \o Line(5, DEPLOY_SET)
    \o Line(4, END)
    \o <<NL>>
    \o Line(4, "# Disable module verification - fixes PrecompileModule errors")
    \o Line(4, VERIFIER)
    \o Indent(4) \o <<NL>>
    \o Line(4, "# Disable explicit modules for Firebase compatibility")
    \o Line(4, EXPLICIT)
    \o Indent(4) \o <<NL>>
    \o Line(4, "# Use whole module optimization for Swift")
    \o Line(4, SWIFT_MODE)
    \o Indent(4) \o <<NL>>
    \o Line(4, "# Disable module debugging")
    \o Line(4, MODULE_DEBUGGING)
    \o Indent(4) \o <<NL>>
    \o Line(4, "# Additional Firebase-specific fixes")
    \o Line(4, NON_MODULAR)
    \o Line(3, END)
    \o Line(2, END)
    \o <<NL>>
    \o Line(2, "# Project-level settings")
    \o Line(2, EACH_PROJECT_CONFIG)
    \o Line(3, VERIFIER)
    \o Line(3, EXPLICIT)
    \o Line(2, END)
    \o <<NL>>
    \o Line(2, "# React Native specific configurations for new architecture")
    \o Line(2, EACH_AGGREGATE)
    \o Line(3, EACH_NATIVE)
    \o Line(4, EACH_CONFIG)
    \o Line(5, ONLY_ACTIVE_ARCH)
    \o Line(5, EXCLUDED_ARCHS)
    \o Line(4, END)
    \o Line(3, END)
    \o Line(2, END)
    \o Ln(1, END)

\* The template literal of lines 87-106, between body and closing: it opens
\* with a line break and ends with one.
mergeFragment ==
    <<NL>>
    \o Line(2, "# Firebase Xcode 16.1 compatibility fixes")
    \o Line(2, EACH_TARGET)
    \o Line(3, EACH_CONFIG)
    \o Line(4, DEPLOY_GET)
    \o Line(4, DEPLOY_IF)
    \o Line(5, DEPLOY_SET)
    \o Line(4, END)
    \o Line(4, VERIFIER)
    \o Line(4, EXPLICIT)
    \o Line(4, SWIFT_MODE)
    \o Line(4, MODULE_DEBUGGING)
    \o Line(4, NON_MODULAR)
    \o Line(3, END)
    \o Line(2, END)
    \o Line(2, EACH_PROJECT_CONFIG)
    \o Line(3, VERIFIER)
    \o Line(3, EXPLICIT)
    \o Line(2, END)

\* ------------------------------------------------------------ the text tests

\* The tokens whose text holds the substring 'post_install do |installer|'.
HookTokens == {HOOK}

\* The same for a key that none of the inserted statements sets.
VerifierTokensOtherKey == {}

\* The tokens whose text holds the substring 'CLANG_ENABLE_MODULE_VERIFIER'.
VerifierTokens == {VERIFIER}

\* contents.includes('post_install do |installer|'), line 76.
IncludesHook(text) == \E i \in 1..Len(text) : text[i] \in HookTokens

\* contents.includes('CLANG_ENABLE_MODULE_VERIFIER').
IncludesVerifier(text) == \E i \in 1..Len(text) : text[i] \in VerifierTokens

\* The condition of line 80 without its negation.
FixesMissingNotNegated(text) == IncludesVerifier(text)

\* !contents.includes('CLANG_ENABLE_MODULE_VERIFIER'), line 80.
FixesMissing(text) == ~IncludesVerifier(text)

\* \s of the regular expressions: the tokens made of white space only.
IsSpace(tok) == tok \in {NL, SP2}

Min(S) == CHOOSE x \in S : \A y \in S : x <= y

\* /(post_install do \|installer\|)([\s\S]*?)(^  end)/m, line 84.  The engine
\* tries start positions from the left, so group 1 is the first opening
\* marker that has a closing after it; the lazy body stops at the first
\* position after the marker that starts a line (^ under the m flag) and reads
\* two spaces and then "end".  OpeningAt is the set of such first markers
\* (empty or one position), ClosingAt(o) the position of the two spaces.
ClosingCandidates(text, o) ==
    {c \in (o + 2)..(Len(text) - 1) :
        text[c - 1] = NL /\ text[c] = SP2 /\ text[c + 1] = END}

OpeningAt(text) ==
    LET opens == {o \in 1..Len(text) :
                     text[o] = HOOK /\ ClosingCandidates(text, o) # {}}
    IN  IF opens = {} THEN {} ELSE {Min(opens)}

ClosingAt(text, o) == Min(ClosingCandidates(text, o))

\* contents.replace(postInstallRegex, (match, opening, body, closing) =>
\*   opening + body + `...` + closing), lines 86-107: the first match is
\* replaced, a text without a match is returned as it is.
ReplacePostInstall(text) ==
    IF OpeningAt(text) = {} THEN text
    ELSE LET o == CHOOSE x \in OpeningAt(text) : TRUE
             c == ClosingAt(text, o)
         IN  SubSeq(text, 1, c - 1) \o mergeFragment \o SubSeq(text, c, Len(text))

\* /end\s*$/, line 117: "end" followed by white space up to the end of the
\* text (no m flag: $ is the end of the input).
TrailingEndAt(text) ==
    {e \in 1..Len(text) :
        text[e] = END /\ \A k \in (e + 1)..Len(text) : IsSpace(text[k])}

\* contents.replace(/end\s*$/, firebaseFixHook + '\nend'), line 117: the match
\* with its trailing white space is replaced.
ReplaceTrailingEnd(text) ==
    IF TrailingEndAt(text) = {} THEN text
    ELSE LET e == Min(TrailingEndAt(text))
         IN  SubSeq(text, 1, e - 1) \o firebaseFixHook \o <<NL, END>>

\* ------------------------------------------------------------ console lines

WARN_NOT_FOUND == "Podfile not found, skipping Firebase Xcode 16.1 fix"
LOG_EXISTING == "Existing post_install hook found in Podfile"
LOG_ADDING_FIXES == "Adding Firebase Xcode 16.1 fixes to existing post_install"
LOG_APPLIED == "Firebase Xcode 16.1 fixes applied successfully"
LOG_PRESENT == "Firebase fixes already present in Podfile"
LOG_ADDING_HOOK == "Adding new post_install hook for Firebase Xcode 16.1 compatibility"
LOG_ADDED == "Post-install hook added successfully"

\* ------------------------------------------------------------------- inputs

\* The longest Podfile, in lines, the plugin is started on.
MaxLines == 4
\* The longest Podfile, in lines, of the runs in which a write may fail.
MaxCrashLines == 2

\* The lines of the Podfiles the plugin is started on.
PodLines ==
    {Line(0, POD), Line(0, TARGET_DO), Line(0, HOOK), Line(1, HOOK),
     Line(1, EACH_DO), Line(2, EACH_DO), Line(2, VERIFIER),
     Line(0, END), Line(1, END), Line(2, END)}

RECURSIVE Join(_)
Join(ls) == IF ls = <<>> THEN <<>> ELSE Head(ls) \o Join(Tail(ls))

\* A text without its last line break, when it ends with one.
Chomp(text) ==
    IF text # <<>> /\ text[Len(text)] = NL
    THEN SubSeq(text, 1, Len(text) - 1) ELSE text

LineSeqs(max) == UNION {[1..n -> PodLines] : n \in 0..max}

\* Every text of at most max lines, ending with a line break or not.
Podfiles(max) ==
    {Join(ls) : ls \in LineSeqs(max)} \cup {Chomp(Join(ls)) : ls \in LineSeqs(max)}

\* -------------------------------------------------------------------- state

VARIABLES
    exists,     \* a file is at podfilePath
    podfile,    \* its text
    existed,    \* the last invocation's fs.existsSync(podfilePath)
    input,      \* the text the last invocation read (line 27)
    log,        \* the console lines of the last invocation
    nReads,     \* its fs.readFileSync calls
    nWrites,    \* its fs.writeFileSync calls
    returned,   \* how it ended: "none" before any, "config", "threw"
    crashed,    \* some invocation's write has failed
    intended    \* the text of the last write that failed

vars ==
    <<exists, podfile, existed, input, log, nReads, nWrites, returned,
      crashed, intended>>

Start(docs) ==
    /\ exists \in BOOLEAN
    /\ podfile \in (IF exists THEN docs ELSE {<<>>})
    /\ existed = FALSE
    /\ input = <<>>
    /\ log = <<>>
    /\ nReads = 0
    /\ nWrites = 0
    /\ returned = "none"
    /\ crashed = FALSE
    /\ intended = <<>>

Init == Start(Podfiles(MaxLines))

InitCrash == Start(Podfiles(MaxCrashLines))

\* --------------------------------------------------------------- operations

\* Lines 22-27 without the return of line 24: fs.readFileSync throws ENOENT.
PatchAbsentFallsThrough ==
    /\ ~exists
    /\ existed' = FALSE
    /\ input' = <<>>
    /\ log' = <<WARN_NOT_FOUND>>
    /\ nReads' = 1
    /\ nWrites' = 0
    /\ returned' = "threw"
    /\ UNCHANGED <<exists, podfile, crashed, intended>>

\* Lines 22-25: no file at the path.
PatchAbsent ==
    /\ ~exists
    /\ existed' = FALSE
    /\ input' = <<>>
    /\ log' = <<WARN_NOT_FOUND>>
    /\ nReads' = 0
    /\ nWrites' = 0
    /\ returned' = "config"
    /\ UNCHANGED <<exists, podfile, crashed, intended>>

\* Lines 76-80, 111-113: both markers are in the text.
PatchAlreadyPresent ==
    /\ exists
    /\ IncludesHook(podfile)
    /\ ~FixesMissing(podfile)
    /\ existed' = TRUE
    /\ input' = podfile
    /\ log' = <<LOG_EXISTING, LOG_PRESENT>>
    /\ nReads' = 1
    /\ nWrites' = 0
    /\ returned' = "config"
    /\ UNCHANGED <<exists, podfile, crashed, intended>>

\* Lines 76-110 with the write of line 109 made only for a changed text.
PatchMergeWriteIfChanged ==
    /\ exists
    /\ IncludesHook(podfile)
    /\ FixesMissing(podfile)
    /\ existed' = TRUE
    /\ input' = podfile
    /\ podfile' = ReplacePostInstall(podfile)
    /\ log' = <<LOG_EXISTING, LOG_ADDING_FIXES, LOG_APPLIED>>
    /\ nReads' = 1
    /\ nWrites' = (IF podfile' # podfile THEN 1 ELSE 0)
    /\ returned' = "config"
    /\ UNCHANGED <<exists, crashed, intended>>

\* Lines 76-110: the hook marker is in the text and the override marker is
\* not.  The text is written and the success line logged whether the
\* replacement matched or not.
PatchMerge ==
    /\ exists
    /\ IncludesHook(podfile)
    /\ FixesMissing(podfile)
    /\ existed' = TRUE
    /\ input' = podfile
    /\ podfile' = ReplacePostInstall(podfile)
    /\ log' = <<LOG_EXISTING, LOG_ADDING_FIXES, LOG_APPLIED>>
    /\ nReads' = 1
    /\ nWrites' = 1
    /\ returned' = "config"
    /\ UNCHANGED <<exists, crashed, intended>>

\* Lines 114-120: no hook marker in the text.
PatchNewHook ==
    /\ exists
    /\ ~IncludesHook(podfile)
    /\ existed' = TRUE
    /\ input' = podfile
    /\ podfile' = ReplaceTrailingEnd(podfile)
    /\ log' = <<LOG_ADDING_HOOK, LOG_ADDED>>
    /\ nReads' = 1
    /\ nWrites' = 1
    /\ returned' = "config"
    /\ UNCHANGED <<exists, crashed, intended>>

\* fs.writeFileSync throwing, lines 109 and 118: the file is opened for
\* writing and truncated, then the text is written; a failure leaves the file
\* as it was (the open failed) or holding a proper prefix of the text.  The
\* exception is not caught: the success line is not logged and the invocation
\* does not return.
FailedWrites(old, text) ==
    {old} \cup {SubSeq(text, 1, k) : k \in 0..(Len(text) - 1)}

PatchMergeWriteFails ==
    /\ exists
    /\ IncludesHook(podfile)
    /\ FixesMissing(podfile)
    /\ existed' = TRUE
    /\ input' = podfile
    /\ intended' = ReplacePostInstall(podfile)
    /\ podfile' \in FailedWrites(podfile, intended')
    /\ log' = <<LOG_EXISTING, LOG_ADDING_FIXES>>
    /\ nReads' = 1
    /\ nWrites' = 1
    /\ returned' = "threw"
    /\ crashed' = TRUE
    /\ UNCHANGED exists

PatchNewHookWriteFails ==
    /\ exists
    /\ ~IncludesHook(podfile)
    /\ existed' = TRUE
    /\ input' = podfile
    /\ intended' = ReplaceTrailingEnd(podfile)
    /\ podfile' \in FailedWrites(podfile, intended')
    /\ log' = <<LOG_ADDING_HOOK>>
    /\ nReads' = 1
    /\ nWrites' = 1
    /\ returned' = "threw"
    /\ crashed' = TRUE
    /\ UNCHANGED exists

Next == PatchAbsent \/ PatchAlreadyPresent \/ PatchMerge \/ PatchNewHook

Spec == Init /\ [][Next]_vars

NextCrash ==
    \/ PatchAbsent
    \/ PatchAlreadyPresent
    \/ PatchMerge
    \/ PatchNewHook
    \/ PatchMergeWriteFails
    \/ PatchNewHookWriteFails

SpecCrash == InitCrash /\ [][NextCrash]_vars

\* ------------------------------------------------- notions of the properties

\* The text holds the hook-opening marker 'post_install do |installer|'.
HasHookMarker(text) == \E i \in DOMAIN text : text[i] = HOOK

\* The text holds the override marker 'CLANG_ENABLE_MODULE_VERIFIER'.
HasOverrideMarker(text) == \E i \in DOMAIN text : text[i] = VERIFIER

\* The number of hook blocks of a text: its hook-opening markers.
HookBlocks(text) == Cardinality({i \in DOMAIN text : text[i] = HOOK})

\* The positions at which frag occurs in text.
Occurrences(text, frag) ==
    {i \in 1..(Len(text) + 1 - Len(frag)) :
        SubSeq(text, i, i + Len(frag) - 1) = frag}

\* The override blocks of a text: the statements the merge inserts and the
\* whole hook the new-hook branch inserts (without its leading line break).
OverrideBlocks(text) ==
    Cardinality(Occurrences(text, Tail(mergeFragment)))
    + Cardinality(Occurrences(text, Tail(firebaseFixHook)))

\* The tokens that open a Ruby block, which an "end" closes.
BlockOpeners ==
    {HOOK, TARGET_DO, EACH_DO, EACH_TARGET, EACH_CONFIG, EACH_PROJECT_CONFIG,
     EACH_AGGREGATE, EACH_NATIVE, DEPLOY_IF}

\* What a token adds to the block depth.
Delta(tok) == IF tok \in BlockOpeners THEN 1 ELSE IF tok = END THEN -1 ELSE 0

\* The change of the block depth over positions a..b.
RECURSIVE DepthChange(_, _, _)
DepthChange(text, a, b) ==
    IF a > b THEN 0
    ELSE IF a = b THEN Delta(text[a])
         ELSE LET m == (a + b) \div 2
              IN  DepthChange(text, a, m) + DepthChange(text, m + 1, b)

\* The least change of the block depth over a..k, for k in a..b (a <= b).
RECURSIVE LeastDepth(_, _, _)
LeastDepth(text, a, b) ==
    IF a = b THEN Delta(text[a])
    ELSE LET m == (a + b) \div 2
             l == LeastDepth(text, a, m)
             r == DepthChange(text, a, m) + LeastDepth(text, m + 1, b)
         IN  IF l <= r THEN l ELSE r

\* A Podfile: a text, not empty, in which every "end" closes a block and
\* every block is closed.
WellFormed(text) ==
    /\ text # <<>>
    /\ LeastDepth(text, 1, Len(text)) >= 0
    /\ DepthChange(text, 1, Len(text)) = 0

\* The first position in a..b at which the block depth, d before a, is back
\* at 0: the position of the "end" that closes the block d levels up; 0 when
\* there is none.
RECURSIVE CloserFrom(_, _, _, _)
CloserFrom(text, a, b, d) ==
    IF a > b THEN 0
    ELSE IF a = b THEN (IF d + Delta(text[a]) = 0 THEN a ELSE 0)
         ELSE LET m == (a + b) \div 2
              IN  IF d + LeastDepth(text, a, m) <= 0
                  THEN CloserFrom(text, a, m, d)
                  ELSE CloserFrom(text, m + 1, b, d + DepthChange(text, a, m))

\* The first hook-opening marker of a text that has one.
FirstHook(text) == CHOOSE o \in DOMAIN text :
    text[o] = HOOK /\ \A j \in 1..(o - 1) : text[j] # HOOK

\* The "end" that closes the (first) hook block.
HookCloser(text) == CloserFrom(text, FirstHook(text) + 1, Len(text), 1)

\* The first position of the line that position k is on.
LineStart(text, k) ==
    CHOOSE s \in 1..k :
        /\ s = 1 \/ text[s - 1] = NL
        /\ \A j \in s..(k - 1) : text[j] # NL

\* text with frag inserted before position p.
InsertedAt(text, p, frag) ==
    SubSeq(text, 1, p - 1) \o frag \o SubSeq(text, p, Len(text))

\* An invocation has returned normally from a Podfile that was there.
Patched == returned = "config" /\ existed

\* The last invocation logged one of the two success lines.
LoggedSuccess ==
    \E i \in DOMAIN log : log[i] \in {LOG_APPLIED, LOG_ADDED}

\* ----------------------------------------------------------------------- C1

\* C1: after the patcher has returned normally from a Podfile that exists, the
\* text on disk holds the hook-opening marker and the override marker.
C1_OverridesEnsured ==
    (Patched /\ WellFormed(input)) =>
        HasHookMarker(podfile) /\ HasOverrideMarker(podfile)

\* ----------------------------------------------------------------------- C2

\* C2: once an invocation has ended, a further invocation leaves the text on
\* disk byte-identical, so no override block and no hook block is added a
\* second time.
C2_Idempotent ==
    [][returned # "none" =>
          /\ podfile' = podfile
          /\ OverrideBlocks(podfile') = OverrideBlocks(podfile)
          /\ HookBlocks(podfile') = HookBlocks(podfile)]_vars

\* A second invocation has run on a text that the first one patched: the
\* texts the plugin is started on hold no override block.
C2_Witness ==
    /\ Patched
    /\ log = <<LOG_EXISTING, LOG_PRESENT>>
    /\ OverrideBlocks(input) = 1
    /\ podfile = input

\* ----------------------------------------------------------------------- C3

\* C3: with no file at the Podfile path an invocation logs the warning, reads
\* nothing, writes nothing, creates no file, does not throw and returns the
\* context.
C3_AbsenceHandling ==
    [][~exists =>
          /\ ~exists'
          /\ podfile' = podfile
          /\ log' = <<WARN_NOT_FOUND>>
          /\ nReads' = 0
          /\ nWrites' = 0
          /\ returned' = "config"]_vars

C3_Witness ==
    ~exists /\ ~existed /\ returned = "config" /\ log = <<WARN_NOT_FOUND>>

\* ----------------------------------------------------------------------- C4

\* The override statements stand, in their order, between positions h and c.
OverridesInOrder(text, h, c) ==
    \E i \in (h + 1)..(c - 1) :
        /\ text[i] = DEPLOY_SET
        /\ \E j \in (i + 1)..(c - 1) :
              /\ text[j] = VERIFIER
              /\ \E k \in (j + 1)..(c - 1) : text[k] = EXPLICIT

\* Position c is followed, after white space only, by the last "end" of the
\* text, and that by white space only.
BeforeFinalEnd(text, c) ==
    \E e \in (c + 1)..Len(text) :
        /\ text[e] = END
        /\ \A k \in (c + 1)..Len(text) : k # e => text[k] \in {NL, SP2}

\* C4: from a well-formed Podfile without the hook-opening marker the written
\* text holds exactly one hook block, which holds the deployment-target,
\* module-verifier and explicit-modules statements in that order and stands
\* immediately before the final top-level "end".
C4_NewHookInsertion ==
    (Patched /\ WellFormed(input) /\ ~HasHookMarker(input)) =>
        /\ HookBlocks(podfile) = 1
        /\ HookCloser(podfile) > FirstHook(podfile)
        /\ OverridesInOrder(podfile, FirstHook(podfile), HookCloser(podfile))
        /\ BeforeFinalEnd(podfile, HookCloser(podfile))

\* ----------------------------------------------------------------------- C5

\* C5: from a well-formed Podfile with the hook-opening marker and without the
\* override marker the written text holds exactly one hook block, and it is
\* the text read with the override statements inserted inside that block:
\* the block's statements and every byte outside the block are kept.
C5_MergeInsertion ==
    (Patched /\ WellFormed(input) /\ HasHookMarker(input)
        /\ ~HasOverrideMarker(input)) =>
        /\ HookBlocks(podfile) = 1
        /\ \E p \in (FirstHook(input) + 1)..HookCloser(input) :
              podfile = InsertedAt(input, p, mergeFragment)

\* ----------------------------------------------------------------------- C7

\* C7: when the merge branch has inserted the override statements into a
\* well-formed Podfile with one hook block, they stand immediately before the
\* line of the "end" that closes the hook block itself, whatever the hook's
\* indentation and the blocks nested in its body.
C7_InsertedBeforeHookCloser ==
    (Patched /\ WellFormed(input) /\ HookBlocks(input) = 1
        /\ ~HasOverrideMarker(input) /\ podfile # input) =>
        podfile = InsertedAt(input, LineStart(input, HookCloser(input)),
                             mergeFragment)

\* ----------------------------------------------------------------------- C9

\* C9: after a write has failed that would have left a well-formed Podfile
\* with the override set exactly once, a later invocation that returns
\* normally leaves a text that holds the complete override block exactly once.
C9_RecoveryByRerun ==
    (crashed /\ Patched /\ WellFormed(intended)
        /\ OverrideBlocks(intended) = 1) =>
        OverrideBlocks(podfile) = 1

\* ----------------------------------------------------------------------- C6

\* C6: an invocation on a text that holds the hook-opening marker and, anywhere,
\* the override marker performs no write and leaves the text byte-identical.
C6_AlreadyPatchedNoOp ==
    [][(exists /\ HasHookMarker(podfile) /\ HasOverrideMarker(podfile)) =>
          /\ nWrites' = 0
          /\ podfile' = podfile
          /\ returned' = "config"]_vars

\* The no-op has run on a text whose override marker stands outside the hook
\* block, before the hook-opening marker.
C6_Witness ==
    /\ Patched
    /\ nWrites = 0
    /\ podfile = input
    /\ \E i, j \in DOMAIN input :
          i < j /\ input[i] = VERIFIER /\ input[j] = HOOK
    /\ OverrideBlocks(input) = 0

\* ----------------------------------------------------------------------- C8

\* Neither regular expression matches the text the branch applies it to.
NothingMatched(text) ==
    IF HasHookMarker(text)
    THEN ~\E o, c \in DOMAIN text :
            /\ text[o] = HOOK /\ o < c /\ c < Len(text)
            /\ text[c - 1] = NL /\ text[c] = SP2 /\ text[c + 1] = END
    ELSE ~\E e \in DOMAIN text :
            /\ text[e] = END
            /\ \A k \in DOMAIN text : k > e => text[k] \in {NL, SP2}

C10_SuccessMeansPatched ==
    (Patched /\ WellFormed(input) /\ LoggedSuccess) =>
        HasOverrideMarker(podfile) /\ HasHookMarker(podfile)

====
